---- MODULE Spec2Model ----
(***************************************************************************)
(* Model of the emotion-detection desktop application:                     *)
(*   src/emotion_detector.py  EmotionDetector (artifact loading, feature   *)
(*                            aggregation, prediction and its error        *)
(*                            contract)                                    *)
(*   src/main.py              EmotionApp (start-up, live capture with the  *)
(*                            RMS silence gate, file selection, display)   *)
(*                                                                         *)
(* Number scales.  Audio samples are in thousandths of full scale, so the  *)
(* threshold 0.03 is 30.  Probabilities are in hundredths, so 0.60 is 60.  *)
(* Means and variances are exact rationals [num, den]; a standard          *)
(* deviation is the square root of one (root = TRUE).  Floating point      *)
(* rounding is not modelled.                                               *)
(*                                                                         *)
(* The pretrained HuBERT model, the scaler and the DNN are binary          *)
(* artifacts outside the repository: what they return is an input chosen   *)
(* by the environment (the embedding sequence, the distribution), what the *)
(* repository's code does with it is computed.                             *)
(***************************************************************************)
EXTENDS Integers, Sequences, FiniteSets, TLC

VARIABLES
    app,              \* process: "starting" | "running" | "aborted" (sys.exit(1))
    loaded,           \* attributes _load_components has assigned so far
    detector,         \* EmotionApp.detector, NoDetector before/without a load
    tempExists,       \* temp_vivo.wav exists on disk
    userFiles,        \* the user's audio files that exist on disk
    result_label,     \* EmotionApp.result_label
    confidence_label, \* EmotionApp.confidence_label
    status_label,     \* EmotionApp.status_label
    msgbox,           \* title of the error box the last handler showed, "" for none
    everPredicted,    \* predecir_emocion has been entered at least once
    last              \* the last handler run: its inputs and what it did

vars == <<app, loaded, detector, tempExists, userFiles, result_label,
          confidence_label, status_label, msgbox, everPredicted, last>>

-----------------------------------------------------------------------------
(* Bounds of the model *)

\* longest recording, in samples
MaxSamples == 2
\* longest embedding sequence, in time steps (T)
MaxT == 2
\* largest embedding value
MaxVal == 1
\* embedding dimension D (1024 for the HuBERT model the code names)
DimD == 2
\* number of classes K the classifier outputs
NumClasses == 3
\* probabilities are k/MaxProbLevel, k in 0..MaxProbLevel
MaxProbLevel == 2

(* Program constants *)

\* UMBRAL_SILENCIO = 0.03, in thousandths
UMBRAL_SILENCIO == 30
\* confianza >= 0.60 shows green, in hundredths
UMBRAL_COLOR == 60

-----------------------------------------------------------------------------
(* Small helpers *)

RECURSIVE SumSeq(_)
SumSeq(s) == IF s = <<>> THEN 0 ELSE Head(s) + SumSeq(Tail(s))

SeqsUpTo(S, n) == UNION {[1..k -> S] : k \in 0..n}

\* the element of a one-element set
The(S) == CHOOSE x \in S : TRUE

Min(S) == CHOOSE x \in S : \A y \in S : x <= y
Max(S) == CHOOSE x \in S : \A y \in S : x >= y

-----------------------------------------------------------------------------
(* Exceptions: a call either returns a value or raises with a message. *)

Return(v) == [raised |-> FALSE, exc |-> "", value |-> v]
Raise(e)  == [raised |-> TRUE,  exc |-> e,  value |-> <<>>]

-----------------------------------------------------------------------------
(* EmotionDetector: artifact loading *)

\* the attributes _load_components assigns, in the order it assigns them
LoadOrder ==
    <<"processor", "model_hubert", "modelo_cargado", "scaler_cargado", "id_to_label">>

Components == {LoadOrder[i] : i \in DOMAIN LoadOrder}

\* emotion names of the persisted label map (label_to_id_CREM.json)
LabelNames == <<"angry", "disgust", "fear", "happy", "neutral", "sad">>

\* label_to_id as json.load returns it: (name, index) items in file order.
\* Three files: one entry per class, the last class missing, indices reversed.
LabelJsons ==
    { [i \in 1..NumClasses |-> <<LabelNames[i], i - 1>>],
      [i \in 1..(NumClasses - 1) |-> <<LabelNames[i], i - 1>>],
      [i \in 1..NumClasses |-> <<LabelNames[i], NumClasses - i>>] }

\* {int(v): k for k, v in label_to_id.items()}: a later item overrides
InvertLabelMap(json) ==
    [v \in {json[i][2] : i \in DOMAIN json} |->
        json[Max({i \in DOMAIN json : json[i][2] = v})][1]]

\* number of features the persisted scaler was fitted on: 4*D, or one more
\* (an artifact of another version)
ScalerSizes == {4 * DimD, 4 * DimD + 1}

NoDetector == [attrs |-> {}, id_to_label |-> <<>>, n_features |-> 0, K |-> 0]

\* A load in which a failing scaler load is swallowed and loading goes on.
LoadComponentsSkipScaler(failAt, json, nfeat) ==
    LET stop == IF failAt = 4 THEN 0 ELSE failAt
        done == IF stop = 0 THEN Components \ (IF failAt = 4 THEN {"scaler_cargado"} ELSE {})
                ELSE {LoadOrder[i] : i \in 1..(stop - 1)}
    IN [ok |-> stop = 0,
        loaded |-> done,
        det |-> IF stop = 0
                THEN [attrs |-> done, id_to_label |-> InvertLabelMap(json),
                      n_features |-> nfeat, K |-> NumClasses]
                ELSE NoDetector]

\* _load_components: the five loads in order; failAt = 0 when none raises,
\* else the position in LoadOrder of the load that raises.  The exception
\* leaves __init__, so no detector object exists after a failure.
LoadComponents(failAt, json, nfeat) ==
    LET done == IF failAt = 0 THEN Components
                ELSE {LoadOrder[i] : i \in 1..(failAt - 1)}
    IN [ok |-> failAt = 0,
        loaded |-> done,
        det |-> IF failAt = 0
                THEN [attrs |-> done, id_to_label |-> InvertLabelMap(json),
                      n_features |-> nfeat, K |-> NumClasses]
                ELSE NoDetector]

\* the detectors a successful construction can produce
LoadedDetectors ==
    {LoadComponents(0, j, n).det : j \in LabelJsons, n \in ScalerSizes}

-----------------------------------------------------------------------------
(* EmotionDetector.preprocesar_audio: statistical aggregation *)

EmbValues == 0..MaxVal

\* sequence_embeddings: T time steps, each a D-vector
EmbeddingSeqs == SeqsUpTo([1..DimD -> EmbValues], MaxT)

Column(emb, d) == [t \in 1..Len(emb) |-> emb[t][d]]

MeanOf(col) == [num |-> SumSeq(col), den |-> Len(col), root |-> FALSE]

\* np.std with a sample (T - 1) divisor
StdOfSample(col) ==
    LET T == Len(col)
        S == SumSeq(col)
    IN [num |-> SumSeq([t \in 1..T |-> (T * col[t] - S) * (T * col[t] - S)]),
        den |-> T * T * (T - 1), root |-> TRUE]

\* np.std, ddof = 0: sqrt(mean(|x - mean(x)|^2)), with x - mean = (T*x - S)/T
StdOf(col) ==
    LET T == Len(col)
        S == SumSeq(col)
    IN [num |-> SumSeq([t \in 1..T |-> (T * col[t] - S) * (T * col[t] - S)]),
        den |-> T * T * T, root |-> TRUE]

MinOf(col) == [num |-> Min({col[t] : t \in DOMAIN col}), den |-> 1, root |-> FALSE]
MaxOf(col) == [num |-> Max({col[t] : t \in DOMAIN col}), den |-> 1, root |-> FALSE]

\* np.concatenate([mean_features, std_features, min_features, max_features])
\* over axis 0; D is the width of a time step
Aggregate(emb) ==
    LET D == Len(emb[1]) IN
    [i \in 1..(4 * D) |->
        LET d == ((i - 1) % D) + 1
            k == (i - 1) \div D
        IN CASE k = 0 -> MeanOf(Column(emb, d))
             [] k = 1 -> StdOf(Column(emb, d))
             [] k = 2 -> MinOf(Column(emb, d))
             [] OTHER -> MaxOf(Column(emb, d))]

\* preprocesar_audio: librosa.load, the HuBERT forward pass, the aggregation,
\* reshape(1, -1).  np.min of an empty sequence raises.
preprocesar_audio(det, in) ==
    IF in.fault = "load" THEN Raise(in.exc)
    ELSE IF ~({"processor", "model_hubert"} \subseteq det.attrs)
         THEN Raise("AttributeError")
    ELSE IF in.fault = "hubert" THEN Raise(in.exc)
    ELSE IF Len(in.emb) = 0
         THEN Raise("zero-size array to reduction operation minimum")
    ELSE Return(<<Aggregate(in.emb)>>)

-----------------------------------------------------------------------------
(* EmotionDetector.predecir_emocion *)

\* probabilities the classifier can output, in hundredths
ProbValues == {(k * 100) \div MaxProbLevel : k \in 0..MaxProbLevel}

\* the classifier's outputs: K values each
Distributions == [1..NumClasses -> ProbValues]

\* what can go wrong outside the repository's code during one call
Faults == {"none", "load", "hubert", "scaler", "predict"}

\* str(e) of an injected exception; an exception may carry no message
ExcTexts == {"", "No such file"}

\* scaler_cargado.transform: raises on a width other than the fitted one;
\* the scaled values depend on the persisted parameters, only the shape is kept
ScalerTransform(det, X, in) ==
    IF "scaler_cargado" \notin det.attrs THEN Raise("AttributeError")
    ELSE IF in.fault = "scaler" THEN Raise(in.exc)
    ELSE IF Len(X[1]) # det.n_features THEN Raise("X has a different number of features")
    ELSE Return([rows |-> Len(X), cols |-> Len(X[1])])

\* modelo_cargado.predict: one row of K probabilities per input row
ModelPredict(det, Xs, in) ==
    IF "modelo_cargado" \notin det.attrs THEN Raise("AttributeError")
    ELSE IF in.fault = "predict" THEN Raise(in.exc)
    ELSE Return([r \in 1..Xs.rows |-> in.dist])

\* an argmax that keeps the last maximum
ArgMaxLast(p) ==
    Max({i \in DOMAIN p : \A j \in DOMAIN p : p[j] <= p[i]}) - 1

\* np.argmax: 0-based index of the first occurrence of the maximum
ArgMax(p) ==
    Min({i \in DOMAIN p : \A j \in DOMAIN p : p[j] <= p[i]}) - 1

\* lines 107-111: the winning index, its label, its probability
Decode(det, predicciones) ==
    LET clase_predicha_id == ArgMax(predicciones) IN
    IF "id_to_label" \notin det.attrs THEN Raise("AttributeError")
    ELSE IF clase_predicha_id \notin DOMAIN det.id_to_label
         THEN Raise(ToString(clase_predicha_id))
    ELSE Return([emocion |-> det.id_to_label[clase_predicha_id],
                 confianza |-> predicciones[clase_predicha_id + 1],
                 id_to_label |-> det.id_to_label,
                 predicciones |-> predicciones])

NoTuple == [emocion |-> "", confianza |-> 0, id_to_label |-> <<>>, predicciones |-> <<>>]

\* what the try body did: tuple is returned unless raised; stages lists the
\* stages entered
Body(raised, exc, tuple, features, stages) ==
    [raised |-> raised, exc |-> exc, tuple |-> tuple, features |-> features,
     stages |-> stages]

\* line 107-111 after a classification that returned
AfterPredict(det, features, r3) ==
    IF r3.raised
    THEN Body(TRUE, r3.exc, NoTuple, features,
              <<"Idle", "Extracting", "Scaling", "Classifying">>)
    ELSE The({ IF r4.raised
               THEN Body(TRUE, r4.exc, NoTuple, features,
                         <<"Idle", "Extracting", "Scaling", "Classifying">>)
               ELSE Body(FALSE, "", r4.value, features,
                         <<"Idle", "Extracting", "Scaling", "Classifying", "Resolved">>) :
               r4 \in {Decode(det, r3.value[1])} })

\* line 104 after a scaling that returned
AfterScaling(det, in, features, r2) ==
    IF r2.raised
    THEN Body(TRUE, r2.exc, NoTuple, features, <<"Idle", "Extracting", "Scaling">>)
    ELSE The({ AfterPredict(det, features, r3) :
               r3 \in {ModelPredict(det, r2.value, in)} })

\* a scaling step whose failure is ignored: the raw vector is classified
AfterExtractionIgnoreScaler(det, in, r1) ==
    IF r1.raised
    THEN Body(TRUE, r1.exc, NoTuple, <<>>, <<"Idle", "Extracting">>)
    ELSE The({ AfterScaling(det, in, r1.value,
                            IF r2.raised
                            THEN Return([rows |-> 1, cols |-> Len(r1.value[1])])
                            ELSE r2) :
               r2 \in {ScalerTransform(det, r1.value, in)} })

\* line 101 after an extraction that returned
AfterExtraction(det, in, r1) ==
    IF r1.raised
    THEN Body(TRUE, r1.exc, NoTuple, <<>>, <<"Idle", "Extracting">>)
    ELSE The({ AfterScaling(det, in, r1.value, r2) :
               r2 \in {ScalerTransform(det, r1.value, in)} })

\* the try body, lines 97-111: each statement runs only if the one before it
\* returned
TryBody(det, in) ==
    The({ AfterExtraction(det, in, r1) : r1 \in {preprocesar_audio(det, in)} })

\* an except clause that catches only exceptions that carry a message
ExceptNarrow(body) ==
    IF body.raised /\ body.exc # ""
    THEN [raised |-> FALSE, exc |-> body.exc,
          tuple |-> [emocion |-> "ERROR: " \o body.exc, confianza |-> 0,
                     id_to_label |-> <<>>, predicciones |-> <<>>],
          features |-> body.features, stages |-> Append(body.stages, "Failed")]
    ELSE body

\* except Exception as e: return f"ERROR: {e}", 0, {}, []
Except(body) ==
    IF body.raised
    THEN [raised |-> FALSE, exc |-> body.exc,
          tuple |-> [emocion |-> "ERROR: " \o body.exc, confianza |-> 0,
                     id_to_label |-> <<>>, predicciones |-> <<>>],
          features |-> body.features, stages |-> Append(body.stages, "Failed")]
    ELSE body

\* predecir_emocion: raised tells whether an exception leaves the call, exc is
\* the exception the body raised (if any), tuple the 4-tuple returned
predecir_emocion(det, in) == The({ Except(body) : body \in {TryBody(det, in)} })

\* the result of a handler run that did not call predecir_emocion
NoRet == [raised |-> FALSE, exc |-> "", tuple |-> NoTuple, features |-> <<>>,
          stages |-> <<>>]

NoInput == [fault |-> "none", exc |-> "", emb |-> <<>>, dist |-> <<>>]

\* one all-zero time step, and the distribution that puts everything on class 0
ZeroStep == <<[d \in 1..DimD |-> 0]>>
FirstClass == [i \in 1..NumClasses |-> IF i = 1 THEN 100 ELSE 0]

\* the inputs of the calls made on the detector alone: every embedding
\* sequence, every distribution, and every fault with and without time steps
CallInputs ==
    [fault : {"none"}, exc : {""}, emb : EmbeddingSeqs, dist : {FirstClass}]
    \cup [fault : {"none"}, exc : {""}, emb : {ZeroStep}, dist : Distributions]
    \cup [fault : Faults \ {"none"}, exc : ExcTexts, emb : {<<>>, ZeroStep},
          dist : {FirstClass}]

-----------------------------------------------------------------------------
(* EmotionApp: the silence gate *)

SampleValues == {0, UMBRAL_SILENCIO, -(UMBRAL_SILENCIO + 10)}

\* grabacion: the captured samples
Recordings == SeqsUpTo(SampleValues, MaxSamples)

SumSq(g) == SumSeq([i \in DOMAIN g |-> g[i] * g[i]])

\* a gate with a non-strict comparison
RmsBelowOrEqual(g, umbral) ==
    /\ Len(g) > 0
    /\ SumSq(g) <= umbral * umbral * Len(g)

\* np.sqrt(np.mean(grabacion**2)) < umbral, squared on both sides; the mean of
\* no samples is NaN, and NaN < umbral is False
RmsBelow(g, umbral) ==
    /\ Len(g) > 0
    /\ SumSq(g) < umbral * umbral * Len(g)

\* the whole thousandths of the root of q/n: the t with t <= root < t + 1
RootFloor(q, n) ==
    CHOOSE t \in 0..(UMBRAL_SILENCIO + 10) :
        t * t * n <= q /\ q < (t + 1) * (t + 1) * n

\* the root of q/n in ten-thousandths, rounded: the r with
\* r - 1/2 <= 10 * root < r + 1/2, given the whole thousandths t
RootRounded(q, n, t) ==
    CHOOSE r \in (10 * t)..(10 * t + 10) :
        /\ r = 0 \/ (2 * r - 1) * (2 * r - 1) * n <= 400 * q
        /\ 400 * q < (2 * r + 1) * (2 * r + 1) * n

\* f"{rms:.4f}": the RMS rounded to 4 decimals, in ten-thousandths
Rms4(g) ==
    The({ The({ RootRounded(q, Len(g), t) : t \in {RootFloor(q, Len(g))} }) :
          q \in {SumSq(g)} })

-----------------------------------------------------------------------------
(* EmotionApp: files and display *)

\* temp_file_path
TempPath == "temp_vivo.wav"

\* the user's audio files and their samples; broken.mp3 cannot be decoded
UserFileNames == {"speech.wav", "silence.wav", "broken.mp3"}

FileSamples(f) ==
    CASE f = "speech.wav"  -> <<UMBRAL_SILENCIO, -(UMBRAL_SILENCIO + 10)>>
      [] f = "silence.wav" -> <<0, 0>>
      [] OTHER             -> <<>>

Waiting     == [kind |-> "Esperando análisis...", arg |-> "", color |-> "#FF9800"]
Analyzing   == [kind |-> "Analizando...", arg |-> "", color |-> "darkorange"]
SilenceText == [kind |-> "SILENCIO DETECTADO", arg |-> "", color |-> "gray"]
PressButton == [kind |-> "Presiona un botón para comenzar", value |-> 0]

\* the part of the state the handlers' helpers read and write
GuiState ==
    [temp |-> tempExists, files |-> userFiles,
     result_label |-> result_label, confidence_label |-> confidence_label]

\* os.path.exists(path) and os.remove(path)
Exists(st, path) == IF path = TempPath THEN st.temp ELSE path \in st.files

Remove(st, path) ==
    IF path = TempPath THEN [st EXCEPT !.temp = FALSE]
    ELSE [st EXCEPT !.files = @ \ {path}]

\* lines 169-171: the label (upper-cased on screen), the colour, the percentage
ShowResult(st, t) ==
    [st EXCEPT
       !.result_label = [kind |-> "EMOCIÓN: ", arg |-> t.emocion,
                         color |-> IF t.confianza >= UMBRAL_COLOR
                                   THEN "#00796B" ELSE "#D32F2F"],
       !.confidence_label = [kind |-> "Confianza: ", value |-> t.confianza]]

\* what analyze_audio_file did
Analysis(st, ret) == [st |-> st, invoked |-> TRUE, ret |-> ret, raised |-> ret.raised]

\* a clean-up that removes the analysed file whatever is_temp says
AfterPredictionAlwaysRemove(st, path, is_temp, r) ==
    IF r.raised THEN Analysis(st, r)
    ELSE Analysis(ShowResult(IF Exists(st, path) THEN Remove(st, path) ELSE st,
                             r.tuple), r)

\* lines 164-171: remove a temporary file, show the result.  An exception
\* leaving predecir_emocion would leave analyze_audio_file at line 162.
AfterPrediction(st, path, is_temp, r) ==
    IF r.raised THEN Analysis(st, r)
    ELSE Analysis(ShowResult(IF is_temp /\ Exists(st, path)
                             THEN Remove(st, path) ELSE st,
                             r.tuple), r)

\* analyze_audio_file: "Analizando...", the prediction, the rest
analyze_audio_file(det, st, path, is_temp, in) ==
    The({ AfterPrediction([st EXCEPT !.result_label = Analyzing], path, is_temp, r) :
          r \in {predecir_emocion(det, in)} })

-----------------------------------------------------------------------------
(* EmotionApp.toggle_recording *)

\* what duration_entry can hold
DurationEntries == {"3", "0", "abc"}

\* int(self.duration_entry.get())
ParseInt(entry) ==
    CASE entry = "3" -> Return(3)
      [] entry = "0" -> Return(0)
      [] OTHER       -> Raise("invalid literal for int() with base 10")

\* what can go wrong in the handler outside the prediction: the capture
\* (sounddevice), wav.write before or after it created the file, and the
\* energy computation with its debug print (lines 128-129)
ToggleFaults == {"none", "capture", "write_nofile", "write_partial", "energy"}

\* the inputs of the prediction the handlers draw: one time step and a
\* distribution with one free probability, no time step, and every fault
AppInputs ==
    [fault : {"none"}, exc : {""}, emb : {ZeroStep},
     dist : {p \in Distributions : \A i \in DOMAIN p : i > 1 => p[i] = 0}]
    \cup [fault : {"none"}, exc : {""}, emb : {<<>>}, dist : {FirstClass}]
    \cup [fault : Faults \ {"none"}, exc : {"No such file"}, emb : {ZeroStep},
          dist : {FirstClass}]

\* the number of frames recorded is duration * fs: none exactly for "0".
\* The samples do not matter to a run that fails before the gate.
ToggleInputs ==
    [entry : {"abc"}, fault : {"none"}, grabacion : {<<>>}, in : {NoInput}]
    \cup [entry : {"3", "0"}, fault : {"capture"}, grabacion : {<<>>}, in : {NoInput}]
    \cup [entry : {"3"}, fault : {"write_nofile", "write_partial", "energy"},
          grabacion : {<<UMBRAL_SILENCIO>>}, in : {NoInput}]
    \cup {[entry |-> IF g = <<>> THEN "0" ELSE "3", fault |-> "none", grabacion |-> g,
           in |-> i] :
            g \in Recordings, i \in AppInputs}

\* what one run of the try block did
Outcome(st, wrote, gate, a) ==
    [st |-> st, wrote |-> wrote, gate |-> gate, invoked |-> a.invoked,
     ret |-> a.ret, raised |-> a.raised]

NotAnalysed(raised) == [invoked |-> FALSE, ret |-> NoRet, raised |-> raised]

\* lines 132-135: remove the file, show the silence text and the RMS
ShowSilence(st, g) ==
    [(IF Exists(st, TempPath) THEN Remove(st, TempPath) ELSE st) EXCEPT
        !.result_label = SilenceText,
        !.confidence_label = [kind |-> "Voz insuficiente (RMS: ", value |-> Rms4(g)]]

\* a gate whose silent branch does not end the handler: the recording is
\* analysed as well
GateFallThrough(det, st, inp) ==
    IF RmsBelow(inp.grabacion, UMBRAL_SILENCIO)
    THEN The({ Outcome(a.st, TRUE, "silent", a) :
               a \in {analyze_audio_file(det, ShowSilence(st, inp.grabacion),
                                         TempPath, TRUE, inp.in)} })
    ELSE The({ Outcome(a.st, TRUE, "pass", a) :
               a \in {analyze_audio_file(det, st, TempPath, TRUE, inp.in)} })

\* lines 131-138: silence is shown, anything else is analysed
Gate(det, st, inp) ==
    IF RmsBelow(inp.grabacion, UMBRAL_SILENCIO)
    THEN Outcome(ShowSilence(st, inp.grabacion), TRUE, "silent", NotAnalysed(FALSE))
    ELSE The({ Outcome(a.st, TRUE, "pass", a) :
               a \in {analyze_audio_file(det, st, TempPath, TRUE, inp.in)} })

\* the try block, lines 109-138; raised tells whether the except clause ran,
\* wrote whether wav.write returned.  wav.write creates the file before it
\* writes the samples, so a write that fails may leave a file.
ToggleTry(det, st, inp) ==
    IF ParseInt(inp.entry).raised \/ inp.fault \in {"capture", "write_nofile"}
    THEN Outcome(st, FALSE, "notreached", NotAnalysed(TRUE))
    ELSE IF inp.fault = "write_partial"
    THEN Outcome([st EXCEPT !.temp = TRUE], FALSE, "notreached", NotAnalysed(TRUE))
    ELSE IF inp.fault = "energy"
    THEN Outcome([st EXCEPT !.temp = TRUE], TRUE, "notreached", NotAnalysed(TRUE))
    ELSE Gate(det, [st EXCEPT !.temp = TRUE], inp)

LastDefault ==
    [op |-> "none", entry |-> "", fault |-> "none", grabacion |-> <<>>,
     path |-> "", is_temp |-> FALSE, gate |-> "notreached", invoked |-> FALSE,
     wrote |-> FALSE, raised |-> FALSE, in |-> NoInput, ret |-> NoRet]

\* toggle_recording: the try block, the except clause (an error box), the
\* finally clause (button and status restored)
toggle_recording ==
    /\ app = "running"
    /\ \E inp \in ToggleInputs :
         \E o \in {ToggleTry(detector, GuiState, inp)} :
         /\ tempExists' = o.st.temp
         /\ userFiles' = o.st.files
         /\ result_label' = o.st.result_label
         /\ confidence_label' = o.st.confidence_label
         /\ msgbox' = IF o.raised THEN "Error" ELSE ""
         /\ status_label' = "Estado: Listo"
         /\ everPredicted' = (everPredicted \/ o.invoked)
         /\ last' = [op |-> "toggle_recording", entry |-> inp.entry,
                     fault |-> inp.fault, grabacion |-> inp.grabacion,
                     path |-> IF o.wrote THEN TempPath ELSE "",
                     is_temp |-> TRUE, gate |-> o.gate, invoked |-> o.invoked,
                     wrote |-> o.wrote, raised |-> o.raised,
                     in |-> IF o.invoked THEN inp.in ELSE NoInput, ret |-> o.ret]
    /\ UNCHANGED <<app, loaded, detector>>

-----------------------------------------------------------------------------
(* EmotionApp.select_audio *)

\* a file that cannot be decoded makes librosa.load raise
SelectInputs ==
    [path : {""}, in : {NoInput}]
    \cup {[path |-> f, in |-> i] : f \in UserFileNames, i \in AppInputs}

\* select_audio: the dialog returns a path, or "" when it is cancelled
select_audio ==
    /\ app = "running"
    /\ \E inp \in SelectInputs :
         /\ inp.path # "" => inp.path \in userFiles
         /\ FileSamples(inp.path) = <<>> /\ inp.path # "" => inp.in.fault = "load"
         /\ \E a \in {IF inp.path = ""
                         THEN [st |-> GuiState, invoked |-> FALSE, ret |-> NoRet,
                               raised |-> FALSE]
                         ELSE analyze_audio_file(detector, GuiState, inp.path,
                                                 FALSE, inp.in)} :
               /\ tempExists' = a.st.temp
               /\ userFiles' = a.st.files
               /\ result_label' = a.st.result_label
               /\ confidence_label' = a.st.confidence_label
               /\ everPredicted' = (everPredicted \/ a.invoked)
               /\ last' = [LastDefault EXCEPT
                             !.op = "select_audio", !.path = inp.path,
                             !.invoked = a.invoked, !.raised = a.raised,
                             !.in = inp.in, !.ret = a.ret]
    /\ msgbox' = ""
    /\ UNCHANGED <<app, loaded, detector, status_label>>

-----------------------------------------------------------------------------
(* EmotionApp.__init__ and the process *)

\* __init__, lines 36-41: build the detector; on an exception show the error
\* box and sys.exit(1)
EmotionApp_init ==
    /\ app = "starting"
    /\ \E failAt \in 0..Len(LoadOrder), json \in LabelJsons, nfeat \in ScalerSizes :
         /\ failAt # 0 => json = [i \in 1..NumClasses |-> <<LabelNames[i], i - 1>>]
                          /\ nfeat = 4 * DimD
         /\ LET r == LoadComponents(failAt, json, nfeat) IN
            /\ loaded' = r.loaded
            /\ detector' = r.det
            /\ app' = IF r.ok THEN "running" ELSE "aborted"
            /\ msgbox' = IF r.ok THEN msgbox ELSE "Error Crítico"
    /\ UNCHANGED <<tempExists, userFiles, result_label, confidence_label,
                   status_label, everPredicted, last>>

\* the process starts with no detector and no temporary file
Init ==
    /\ app = "starting"
    /\ loaded = {}
    /\ detector = NoDetector
    /\ tempExists = FALSE
    /\ userFiles = UserFileNames
    /\ result_label = Waiting
    /\ confidence_label = PressButton
    /\ status_label = "Estado: Listo para grabar"
    /\ msgbox = ""
    /\ everPredicted = FALSE
    /\ last = LastDefault

Next ==
    \/ EmotionApp_init
    \/ toggle_recording
    \/ select_audio

Spec == Init /\ [][Next]_vars

-----------------------------------------------------------------------------
(* The detector on its own: every call of predecir_emocion on every detector *)
(* a successful construction can produce.                                    *)

InitDetector ==
    /\ app = "running"
    /\ loaded = Components
    /\ detector \in LoadedDetectors
    /\ tempExists = FALSE
    /\ userFiles = UserFileNames
    /\ result_label = Waiting
    /\ confidence_label = PressButton
    /\ status_label = "Estado: Listo para grabar"
    /\ msgbox = ""
    /\ everPredicted = FALSE
    /\ last \in {[LastDefault EXCEPT !.op = "call", !.in = i] :
                    i \in CallInputs}

\* the caller receives what predecir_emocion returns
CallPredecirEmocion ==
    /\ last.op = "call"
    /\ \E r \in {predecir_emocion(detector, last.in)} :
         last' = [last EXCEPT !.op = "predecir_emocion", !.invoked = TRUE,
                              !.raised = r.raised, !.ret = r]
    /\ everPredicted' = TRUE
    /\ UNCHANGED <<app, loaded, detector, tempExists, userFiles, result_label,
                   confidence_label, status_label, msgbox>>

NextDetector == CallPredecirEmocion

SpecDetector == InitDetector /\ [][NextDetector]_vars

-----------------------------------------------------------------------------
(* Properties *)

LastOf(seq) == seq[Len(seq)]

ErrorTuple(t) ==
    /\ Len(t.emocion) > 0
    /\ t.confianza = 0
    /\ t.id_to_label = <<>>
    /\ t.predicciones = <<>>

\* the call that was made had a stage fail for a reason outside the code
StageFaulted == last.in.fault # "none" \/ last.in.emb = <<>>

\* C1: predecir_emocion never raises to its caller; whenever a stage of the
\* call fails, the caller receives a non-empty message in the label position,
\* confidence 0, an empty label map and an empty distribution.
C1_NeverRaises ==
    last.op = "predecir_emocion" =>
        /\ ~last.ret.raised
        /\ ~last.raised
        /\ StageFaulted => LastOf(last.ret.stages) = "Failed"
        /\ LastOf(last.ret.stages) = "Failed" => ErrorTuple(last.ret.tuple)

\* C1 witness: the audio load failed with an exception that has no message
C1_Witness ==
    /\ last.op = "predecir_emocion"
    /\ last.in.fault = "load"
    /\ last.in.exc = ""
    /\ last.ret.tuple.emocion = "ERROR: "
    /\ last.ret.tuple.confianza = 0

\* C2: a temporary file written by a live capture is gone when
\* toggle_recording returns, on every path through the handler.
C2_TempFileRemoved ==
    (last.op = "toggle_recording" /\ last.wrote) => ~tempExists

\* the recording has samples and its RMS is below the threshold:
\* sqrt(sum/n) < u  iff  sum < u*u*n
Silent(g) == Len(g) > 0 /\ SumSq(g) < UMBRAL_SILENCIO * UMBRAL_SILENCIO * Len(g)

AllSamples(g, v) == Len(g) > 0 /\ \A i \in DOMAIN g : g[i] = v

GateReached == last.op = "toggle_recording" /\ last.gate # "notreached"

\* C3 as stated: after a recording judged silent the prediction was not
\* invoked and the outcome shown is the silence text with a confidence of 0.
C3_SilenceShowsZeroConfidence ==
    (GateReached /\ last.gate = "silent") =>
        /\ ~last.invoked
        /\ result_label = SilenceText
        /\ confidence_label = [kind |-> "Confianza: ", value |-> 0]

\* C3 as amended: after a recording judged silent the prediction was not
\* invoked and the outcome shown is the silence text with the measured RMS
\* (which is 0 for all-zero samples); no error box, no emotion text.
C3_SilenceSkipsInference ==
    (GateReached /\ (last.gate = "silent" \/ AllSamples(last.grabacion, 0))) =>
        /\ last.gate = "silent"
        /\ ~last.invoked
        /\ last.ret = NoRet
        /\ result_label = SilenceText
        /\ confidence_label.kind = "Voz insuficiente (RMS: "
        /\ AllSamples(last.grabacion, 0) => confidence_label.value = 0
        /\ ~last.raised
        /\ msgbox = ""

\* C3 witness: an all-zero recording was rejected
C3_Witness ==
    /\ GateReached
    /\ AllSamples(last.grabacion, 0)
    /\ Len(last.grabacion) = MaxSamples
    /\ last.gate = "silent"
    /\ ~last.invoked
    /\ result_label = SilenceText

\* C4: a recording is rejected as silent exactly when its RMS is strictly
\* below 0.03; at exactly 0.03 it goes to the prediction; all-zero samples
\* are silent.
C4_StrictThreshold ==
    GateReached =>
        /\ last.gate = "silent" <=> Silent(last.grabacion)
        /\ last.gate = "pass" <=> last.invoked
        /\ AllSamples(last.grabacion, UMBRAL_SILENCIO) => last.invoked
        /\ AllSamples(last.grabacion, 0) => ~last.invoked

\* C4 witness: a recording whose RMS is exactly the threshold was analysed
C4_Witness ==
    /\ GateReached
    /\ AllSamples(last.grabacion, UMBRAL_SILENCIO)
    /\ SumSq(last.grabacion) = UMBRAL_SILENCIO * UMBRAL_SILENCIO * Len(last.grabacion)
    /\ last.gate = "pass"
    /\ last.invoked

\* C5: for a file the user selected the prediction is invoked whatever the
\* file's energy, no silence text is shown for it, and no user file is ever
\* deleted.
C5_FilesBypassGate ==
    /\ userFiles = UserFileNames
    /\ (last.op = "select_audio" /\ last.path # "") =>
          /\ last.invoked
          /\ last.gate = "notreached"
          /\ result_label # SilenceText
          /\ confidence_label.kind # "Voz insuficiente (RMS: "

\* C5 witness: a file of all-zero samples was selected and analysed
C5_Witness ==
    /\ last.op = "select_audio"
    /\ last.path = "silence.wav"
    /\ Silent(FileSamples(last.path))
    /\ last.invoked
    /\ result_label.kind = "EMOCIÓN: "
    /\ last.path \in userFiles

\* the call reached the decoding step: p is what the classifier returned
Classified ==
    /\ last.op = "predecir_emocion"
    /\ last.in.fault = "none"
    /\ last.in.emb # <<>>
    /\ detector.n_features = 4 * DimD

\* w is the lowest index at which p attains its maximum
LowestMax(p, w) ==
    /\ \A j \in DOMAIN p : p[j] <= p[w]
    /\ \A j \in DOMAIN p : j < w => p[j] < p[w]

\* C6: on a successful prediction the winner is the lowest index at which the
\* distribution attains its maximum, the label is the label map's entry for
\* it and the confidence is the distribution's value at it.
C6_ArgmaxLowestIndex ==
    (last.op = "predecir_emocion" /\ LastOf(last.ret.stages) = "Resolved") =>
        \E w \in DOMAIN last.in.dist :
            /\ LowestMax(last.in.dist, w)
            /\ (w - 1) \in DOMAIN detector.id_to_label
            /\ last.ret.tuple.emocion = detector.id_to_label[w - 1]
            /\ last.ret.tuple.confianza = last.in.dist[w]
            /\ last.ret.tuple.predicciones = last.in.dist
            /\ last.ret.tuple.id_to_label = detector.id_to_label

\* C6 witness: classes 0 and 1 tie for the maximum and class 0 wins
C6_Witness ==
    /\ last.op = "predecir_emocion"
    /\ LastOf(last.ret.stages) = "Resolved"
    /\ last.in.dist[1] = last.in.dist[2]
    /\ last.in.dist[1] > 0
    /\ \A j \in DOMAIN last.in.dist : last.in.dist[j] <= last.in.dist[1]
    /\ last.ret.tuple.emocion = detector.id_to_label[0]
    /\ detector.id_to_label[0] # detector.id_to_label[1]

ColSum(emb, d)   == SumSeq([t \in 1..Len(emb) |-> emb[t][d]])
ColSumSq(emb, d) == SumSeq([t \in 1..Len(emb) |-> emb[t][d] * emb[t][d]])

\* x is the rational a/b, or its square root
IsRational(x, a, b) == ~x.root /\ x.den # 0 /\ x.num * b = a * x.den
IsRootOf(x, a, b)   == x.root /\ x.den # 0 /\ x.num * b = a * x.den

\* C7: for T > 0 time steps of dimension D the feature vector has length 4D:
\* the D means, the D population standard deviations (variance
\* sum(x^2)/T - (sum(x)/T)^2), the D minima, the D maxima, in this order.
C7_FeatureVector ==
    (last.op = "predecir_emocion" /\ last.in.fault \notin {"load", "hubert"}
        /\ Len(last.in.emb) > 0) =>
        /\ Len(last.ret.features) = 1
        /\ LET emb == last.in.emb
               T   == Len(last.in.emb)
               f   == last.ret.features[1]
           IN /\ Len(f) = 4 * DimD
              /\ \A d \in 1..DimD :
                   /\ IsRational(f[d], ColSum(emb, d), T)
                   /\ IsRootOf(f[DimD + d],
                               T * ColSumSq(emb, d) - ColSum(emb, d) * ColSum(emb, d),
                               T * T)
                   /\ \E t \in 1..T : IsRational(f[2 * DimD + d], emb[t][d], 1)
                   /\ \A t \in 1..T : f[2 * DimD + d].num <= emb[t][d] * f[2 * DimD + d].den
                   /\ \E t \in 1..T : IsRational(f[3 * DimD + d], emb[t][d], 1)
                   /\ \A t \in 1..T : f[3 * DimD + d].num >= emb[t][d] * f[3 * DimD + d].den

\* C7 witness: MaxT time steps that differ in the first dimension only
C7_Witness ==
    /\ last.op = "predecir_emocion"
    /\ Len(last.in.emb) = MaxT
    /\ Len(last.ret.features) = 1
    /\ last.ret.features[1][DimD + 1].num > 0
    /\ last.ret.features[1][DimD + DimD].num = 0
    /\ last.ret.features[1][2 * DimD + 1].num < last.ret.features[1][3 * DimD + 1].num

\* C8: a load in which any one sub-load fails leaves no detector and ends the
\* process at start-up; no prediction is ever made with a detector that lacks
\* a component.
C8_LoadAllOrNothing ==
    /\ loaded # Components => detector = NoDetector /\ app # "running"
    /\ app = "aborted" => /\ loaded # Components
                          /\ detector = NoDetector
                          /\ msgbox = "Error Crítico"
    /\ app = "running" => detector.attrs = Components
    /\ everPredicted => app = "running" /\ loaded = Components
    /\ last.op # "none" => app = "running"

\* C8 witness: the scaler failed to load after the three loads before it
C8_Witness ==
    /\ app = "aborted"
    /\ loaded = {"processor", "model_hubert", "modelo_cargado"}
    /\ detector = NoDetector
    /\ ~everPredicted

\* C9: on a detector that loaded, no call ends with a failed label lookup:
\* once the classifier has returned, the call resolves.
C9_NoFailedLookup ==
    Classified => LastOf(last.ret.stages) = "Resolved"

StageOrder == <<"Idle", "Extracting", "Scaling", "Classifying">>

Entered(stage) == \E i \in DOMAIN last.ret.stages : last.ret.stages[i] = stage

\* C10: a call enters its stages only in the order Idle, Extracting, Scaling,
\* Classifying, each only after the one before it succeeded, and ends in
\* exactly one of Resolved and Failed, which is its last stage.
C10_StageOrder ==
    last.op = "predecir_emocion" =>
        LET st == last.ret.stages
            n  == Len(last.ret.stages)
        IN /\ n >= 2 /\ n <= 5
           /\ \A i \in 1..(n - 1) : st[i] = StageOrder[i]
           /\ st[n] \in {"Resolved", "Failed"}
           /\ st[n] = "Resolved" => n = 5
           /\ Entered("Scaling") =>
                 last.in.fault \notin {"load", "hubert"} /\ last.in.emb # <<>>
           /\ Entered("Classifying") =>
                 last.in.fault # "scaler" /\ detector.n_features = 4 * DimD
           /\ Entered("Resolved") => last.in.fault = "none"
           /\ StageFaulted => st[n] = "Failed"

\* C10 witness: the scaler failed, so the classifier was not run
C10_Witness ==
    /\ last.op = "predecir_emocion"
    /\ last.in.fault = "scaler"
    /\ last.ret.stages = <<"Idle", "Extracting", "Scaling", "Failed">>

====
